---- MODULE Spec2Model ----
(***************************************************************************)
(* EtherCAT EoE "set IP parameter" state machine (master/fsm_eoe.c).       *)
(*                                                                         *)
(* The module models the FSM context (ec_fsm_eoe_t), the request it works  *)
(* on (ec_eoe_request_t), the datagrams ("slots") the caller offers once   *)
(* per cycle, and the clock (jiffies).  The FSM's handlers are translated  *)
(* from fsm_eoe.c; the datagram transport and the mailbox primitives are   *)
(* not part of that file and are modelled at their interface.              *)
(***************************************************************************)
EXTENDS Integers, Sequences, FiniteSets, TLC

VARIABLES
    state,               \* fsm->state: the current handler
    retries,             \* fsm->retries
    frame_type_retries,  \* fsm->frame_type_retries
    datagram,            \* fsm->datagram: the retained slot, or NULL
    jiffies_start,       \* fsm->jiffies_start
    slave,               \* fsm->slave (the slave's capabilities), or NULL
    request,             \* fsm->request (the caller's request), or NULL
    slots,               \* the datagrams of the transport, by slot id
    call,                \* the last call of the caller and what it returned
    hist                 \* history of the running operation (not program state)

vars == <<state, retries, frame_type_retries, datagram, jiffies_start,
          slave, request, slots, call, hist>>

fsmVars == <<state, retries, frame_type_retries, datagram, jiffies_start,
             slave, request>>

\* a null pointer; slot ids start at 1
NULL == 0

\* fsm->state before the first begin (a null function pointer)
NoState == "NULL"

-----------------------------------------------------------------------------
(* Bounds of the model *)

\* number of datagrams the transport hands round
NSlots == 2

\* the clock advances in ticks of TickJiffies jiffies
TickJiffies == 1500

\* the clock and every time stamp are unsigned and wrap; the model lets
\* them wrap after NTicks ticks
NTicks == 3

-----------------------------------------------------------------------------
(* Program constants *)

EC_EOE_RESPONSE_TIMEOUT == 3000
EC_FSM_RETRIES == 3
FRAME_TYPE_RETRIES == 10
HZ == 1000
ETH_ALEN == 6
EC_MAX_HOSTNAME_SIZE == 32
EC_EOE_FRAMETYPE_SET_IP_REQ == 2
EC_EOE_FRAMETYPE_SET_IP_RES == 3
EC_MBOX_TYPE_EOE == 2
EC_MBOX_TYPE_COE == 3

\* unsigned int counters are kept as their 32-bit pattern read as two's
\* complement: UINT_MAX, the value 0 wraps to when decremented, is -1
UINT_MAX == -1

Slots == 1..NSlots
ClockPeriod == NTicks * TickJiffies

\* the kernel clock.  The present is taken as the origin of time: jiffies
\* reads 0, and a tick of the clock moves every time stamp one tick into the
\* past (modulo ClockPeriod), so that the differences the code computes are
\* those of a wrapping clock
jiffies == 0

Times == { n * TickJiffies : n \in 0..(NTicks - 1) }

-----------------------------------------------------------------------------
(* Byte-order helper and request encoder *)

Zeros(n) == [i \in 1..n |-> 0]

\* memcpy(data + off, bytes, Len(bytes)), off counted from 0
WriteAt(data, off, bytes) ==
    [i \in 1..Len(data) |->
        IF i > off /\ i <= off + Len(bytes) THEN bytes[i - off] ELSE data[i]]

memcpy_swap32_mut(src) == [i \in 1..4 |-> src[i]]

\* dst[i] = src[3 - i] for i = 0..3
memcpy_swap32(src) == [i \in 1..4 |-> src[5 - i]]

\* EC_WRITE_U16 / EC_WRITE_U32: little-endian stores
LE16(v) == <<v % 256, (v \div 256) % 256>>
LE32(v) == <<v % 256, (v \div 256) % 256,
             (v \div 65536) % 256, (v \div 16777216) % 256>>

\* EC_READ_U16(data + off): little-endian load
EC_READ_U16(data, off) == data[off + 1] + 256 * data[off + 2]

Bit(b, n) == IF b THEN 2 ^ n ELSE 0

IncludedFlags_mut(req) ==
    Bit(req.mac_address_included, 0) + Bit(req.ip_address_included, 2) +
    Bit(req.subnet_mask_included, 1) + Bit(req.gateway_included, 3) +
    Bit(req.dns_included, 4) + Bit(req.name_included, 5)

\* the flags word (lines 207-214)
IncludedFlags(req) ==
    Bit(req.mac_address_included, 0) + Bit(req.ip_address_included, 1) +
    Bit(req.subnet_mask_included, 2) + Bit(req.gateway_included, 3) +
    Bit(req.dns_included, 4) + Bit(req.name_included, 5)

PayloadSize_mut == 8 + ETH_ALEN + 4 + 4 + 4 + EC_MAX_HOSTNAME_SIZE

PayloadSize == 8 + ETH_ALEN + 4 + 4 + 4 + 4 + EC_MAX_HOSTNAME_SIZE

\* the payload ec_fsm_eoe_prepare_set writes into the mailbox send buffer
PreparedData(req) ==
    LET d0 == Zeros(PayloadSize)
        d1 == WriteAt(d0, 0, <<EC_EOE_FRAMETYPE_SET_IP_REQ>>)
        d2 == WriteAt(d1, 1, <<0>>)
        d3 == WriteAt(d2, 2, LE16(0))
        d4 == WriteAt(d3, 4, LE32(IncludedFlags(req)))
        c0 == 8
        d5 == IF req.mac_address_included
              THEN WriteAt(d4, c0, req.mac_address) ELSE d4
        c1 == c0 + ETH_ALEN
        d6 == IF req.ip_address_included
              THEN WriteAt(d5, c1, memcpy_swap32(req.ip_address)) ELSE d5
        c2 == c1 + 4
        d7 == IF req.subnet_mask_included
              THEN WriteAt(d6, c2, memcpy_swap32(req.subnet_mask)) ELSE d6
        c3 == c2 + 4
        d8 == IF req.gateway_included
              THEN WriteAt(d7, c3, memcpy_swap32(req.gateway)) ELSE d7
        c4 == c3 + 4
        d9 == IF req.dns_included
              THEN WriteAt(d8, c4, memcpy_swap32(req.dns)) ELSE d8
        c5 == c4 + 4
    IN  IF req.name_included THEN WriteAt(d9, c5, req.name) ELSE d9

-----------------------------------------------------------------------------
(* Datagrams (transport slots) *)

Unarmed == "none"

\* what the mailbox primitives read from a received datagram:
\* ec_slave_mbox_check gives has_data; ec_slave_mbox_fetch gives an error or
\* the protocol tag and the payload bytes (rec_size is their number)
NoMbox == [has_data |-> FALSE, err |-> FALSE, prot |-> 0, bytes |-> <<>>]

\* a datagram nobody has armed
IdleSlot == [state |-> "INIT", working_counter |-> 0, jiffies_sent |-> 0,
             jiffies_received |-> 0, op |-> Unarmed, data |-> <<>>,
             mbox |-> NoMbox]

\* ec_slave_mbox_prepare_send / _check / _fetch: the datagram is set up anew
\* (state INIT, working counter 0) for the mailbox operation op
Armed(op, data) == [IdleSlot EXCEPT !.op = op, !.data = data]

\* the replies a mailbox fetch may bring
Reply(prot, bytes) ==
    [has_data |-> FALSE, err |-> FALSE, prot |-> prot, bytes |-> bytes]

FetchReplies ==
    { [NoMbox EXCEPT !.err = TRUE] } \cup
    { Reply(EC_MBOX_TYPE_COE, <<3, 0, 0, 0>>),
      Reply(EC_MBOX_TYPE_EOE, <<3, 0>>),
      Reply(EC_MBOX_TYPE_EOE, <<0, 0, 0, 0>>),
      Reply(EC_MBOX_TYPE_EOE, <<3, 0, 0, 0>>),
      Reply(EC_MBOX_TYPE_EOE, <<19, 0, 0, 0>>),
      Reply(EC_MBOX_TYPE_EOE, <<3, 0, 1, 0>>) }

CheckReplies == { [NoMbox EXCEPT !.has_data = b] : b \in BOOLEAN }

WorkingCounters == 0..2

-----------------------------------------------------------------------------
(* Requests and slaves *)

Addr(a, b, c, d) == <<a, b, c, d>>

NewRequest(flags, res) ==
    [mac_address |-> <<2, 0, 0, 0, 0, 1>>,
     mac_address_included |-> flags[1],
     ip_address |-> Addr(192, 0, 2, 10),
     ip_address_included |-> flags[2],
     subnet_mask |-> Addr(255, 255, 255, 0),
     subnet_mask_included |-> flags[3],
     gateway |-> Addr(192, 0, 2, 1),
     gateway_included |-> flags[4],
     dns |-> Addr(192, 0, 2, 53),
     dns_included |-> flags[5],
     name |-> [i \in 1..EC_MAX_HOSTNAME_SIZE |-> IF i <= 3 THEN 100 + i ELSE 0],
     name_included |-> flags[6],
     result |-> res,
     jiffies_sent |-> 0]

\* the requests begin is called with in the FSM specification: the request
\* of the spec's scenarios (only the IP address included), whose result
\* field holds what the caller left there, a value no reply carries
Requests ==
    { NewRequest(<<FALSE, TRUE, FALSE, FALSE, FALSE, FALSE>>, res) :
        res \in {7} }

\* the slaves begin is called with (ids; what a slave supports is read from
\* it when the START handler runs)
Slaves == {1}

-----------------------------------------------------------------------------------------------------------------------------------------------------
(* The FSM *)

\* what the caller last did: op is "exec" after a call of ec_fsm_eoe_exec
\* and "begin" after one of ec_fsm_eoe_set_ip_param; slot is the datagram
\* offered, ran tells whether a state handler ran, ret is the value
\* returned, from the state the call found and err the error the handler
\* logged.  Any other step clears it.
NoCall == [op |-> "none", slot |-> 0, ran |-> FALSE, ret |-> 0,
           from |-> "none", err |-> "none"]

\* what has happened in the running operation (since begin): the frames of
\* another type met (strays), the datagrams that timed out in a row since
\* retries was last assigned (timeouts), the ticks of the clock since the
\* request was first sent (ticks, counted up to NTicks; -1 before that),
\* whether every time stamp in use is still less than a clock period old
\* (exact), and whether the FSM has assigned request->result (wrote)
NoHist == [strays |-> 0, timeouts |-> 0, ticks |-> -1, exact |-> TRUE,
           wrote |-> FALSE]

\* ec_fsm_eoe_init
Init ==
    /\ slave = NULL
    /\ retries = 0
    /\ state = NoState
    /\ datagram = NULL
    /\ jiffies_start = 0
    /\ request = NULL
    /\ frame_type_retries = 0
    /\ slots = [s \in Slots |-> IdleSlot]
    /\ call = NoCall
    /\ hist = NoHist

\* x-- on an unsigned int
Dec(x) == IF x = 0 THEN UINT_MAX ELSE x - 1

RetryLeft_mut(x) == x > 1

\* the value of "fsm->retries--" as a condition
RetryLeft(x) == x # 0

FrameRetryLeft_mut(x) == x > 1

\* the value of "fsm->frame_type_retries--" as a condition
FrameRetryLeft(x) == x # 0

\* (a - b) * 1000 / HZ on unsigned long time stamps
DiffMs(a, b) == (((a - b) % ClockPeriod) * 1000) \div HZ

WindowOver_mut(diff_ms) == diff_ms > EC_EOE_RESPONSE_TIMEOUT

\* diff_ms >= EC_EOE_RESPONSE_TIMEOUT (check, line 374)
WindowOver(diff_ms) == diff_ms >= EC_EOE_RESPONSE_TIMEOUT

Unresolved_mut(st) == st \in {"QUEUED", "SENT"}

Unresolved_unsent(st) == st \in {"INIT", "QUEUED"}

Unresolved_sent(st) == st = "SENT"

\* fsm->datagram is still on its way (exec, lines 129-131)
Unresolved(st) == st \in {"INIT", "QUEUED", "SENT"}

DatagramUsed_mut(st) == st # "END"

\* datagram_used (exec, line 139)
DatagramUsed(st) == st # "END" /\ st # "ERROR"

\* EC_READ_U8(data) & 0x0f
FrameType(b) == b % 16

ResultOf_mut(data) == EC_READ_U16(data, 0)

\* "EC_READ_U16(data + 2)": the result word follows the two header bytes
ResultOf(data) == EC_READ_U16(data, 2)

SlaveRejected_mut(result) == result > 1

\* "if (req->result)": the slave reported a failure
SlaveRejected(result) == result # 0

\* the context as a handler sees and changes it; arm is the mailbox
\* operation the handler prepares on the datagram it was given, reset tells
\* that it assigned EC_FSM_RETRIES to retries, stray that it met a frame of
\* another type, wrote that it assigned request->result, err which error it
\* logged
Ctx ==
    [state |-> state, retries |-> retries,
     frame_type_retries |-> frame_type_retries,
     jiffies_start |-> jiffies_start, request |-> request,
     arm |-> Unarmed, reset |-> FALSE, stray |-> FALSE, wrote |-> FALSE,
     err |-> "none"]

ToError_mut(f, kind) ==
    [f EXCEPT !.state = "ERROR", !.err = kind, !.request.result = 1]

\* "fsm->state = ec_fsm_eoe_error", with the error the handler logs
ToError(f, kind) == [f EXCEPT !.state = "ERROR", !.err = kind]

\* ec_fsm_eoe_prepare_set, when ec_slave_mbox_prepare_send gave a buffer:
\* the request is encoded into it and the time of sending recorded
ec_fsm_eoe_prepare_set(f) ==
    [f EXCEPT !.arm = "send", !.request.jiffies_sent = jiffies]

PrepareOrError_mut(f, ok) == IF ok THEN ec_fsm_eoe_prepare_set(f) ELSE f

\* "if (ec_fsm_eoe_prepare_set(fsm, datagram)) fsm->state = error; return":
\* ok tells whether ec_slave_mbox_prepare_send gave a buffer
PrepareOrError(f, ok) ==
    IF ok THEN ec_fsm_eoe_prepare_set(f)
    ELSE ToError(f, "MailboxBusyOrUnsupported")

\* ec_fsm_eoe_set_ip_start; eoe tells whether the slave's mailbox_protocols
\* has EC_MBOX_EOE
ec_fsm_eoe_set_ip_start(f, eoe, ok) ==
    IF ~eoe THEN ToError(f, "UnsupportedProtocol")
    ELSE IF ~ok THEN PrepareOrError(f, ok)
    ELSE [PrepareOrError(f, ok) EXCEPT
             !.retries = EC_FSM_RETRIES, !.reset = TRUE, !.state = "REQUEST"]

\* "fsm->datagram->state == EC_DATAGRAM_TIMED_OUT && fsm->retries--":
\* the decrement happens only when the datagram timed out
AfterRetryTest(f, dg) ==
    IF dg.state = "TIMED_OUT" THEN [f EXCEPT !.retries = Dec(f.retries)] ELSE f

RetryTest(f, dg) == dg.state = "TIMED_OUT" /\ RetryLeft(f.retries)

ResendAllowed_mut(wc, diff_ms) == diff_ms < EC_EOE_RESPONSE_TIMEOUT

\* "no response; send request datagram again" (request, lines 316-317)
ResendAllowed(wc, diff_ms) == wc = 0 /\ diff_ms < EC_EOE_RESPONSE_TIMEOUT

WindowStart_mut(dg) == jiffies

\* "fsm->jiffies_start = fsm->datagram->jiffies_sent" (lines 332 and 462)
WindowStart(dg) == dg.jiffies_sent

\* ec_fsm_eoe_set_ip_request
ec_fsm_eoe_set_ip_request(f, dg, ok) ==
    LET f1 == AfterRetryTest(f, dg)
        diff_ms == DiffMs(jiffies, f.request.jiffies_sent)
    IN  IF RetryTest(f, dg) THEN PrepareOrError(f1, ok)
        ELSE IF dg.state # "RECEIVED" THEN ToError(f1, "TransmitFailed")
        ELSE IF dg.working_counter # 1
        THEN IF ResendAllowed(dg.working_counter, diff_ms)
             THEN PrepareOrError(f1, ok)
             ELSE ToError(f1, "NoAcknowledgment")
        ELSE [f1 EXCEPT !.jiffies_start = WindowStart(dg),
                        !.arm = "check",
                        !.retries = EC_FSM_RETRIES, !.reset = TRUE,
                        !.state = "CHECK",
                        !.frame_type_retries = FRAME_TYPE_RETRIES]

ec_fsm_eoe_set_ip_check_mut(f, dg) ==
    LET f1 == AfterRetryTest(f, dg)
        diff_ms == DiffMs(dg.jiffies_received, f.jiffies_start)
    IN  IF RetryTest(f, dg) THEN [f1 EXCEPT !.arm = "check"]
        ELSE IF dg.state # "RECEIVED" THEN ToError(f1, "CheckFailed")
        ELSE IF dg.working_counter # 1 THEN ToError(f1, "CheckAckFailed")
        ELSE IF ~dg.mbox.has_data
        THEN IF WindowOver(diff_ms)
             THEN ToError(f1, "ResponseTimeout")
             ELSE [f1 EXCEPT !.arm = "fetch",
                             !.retries = EC_FSM_RETRIES, !.reset = TRUE]
        ELSE [f1 EXCEPT !.arm = "fetch",
                        !.retries = EC_FSM_RETRIES, !.reset = TRUE,
                        !.state = "RESPONSE"]

\* ec_fsm_eoe_set_ip_check
ec_fsm_eoe_set_ip_check(f, dg) ==
    LET f1 == AfterRetryTest(f, dg)
        diff_ms == DiffMs(dg.jiffies_received, f.jiffies_start)
    IN  IF RetryTest(f, dg) THEN [f1 EXCEPT !.arm = "check"]
        ELSE IF dg.state # "RECEIVED" THEN ToError(f1, "CheckFailed")
        ELSE IF dg.working_counter # 1 THEN ToError(f1, "CheckAckFailed")
        ELSE IF ~dg.mbox.has_data
        THEN IF WindowOver(diff_ms)
             THEN ToError(f1, "ResponseTimeout")
             ELSE [f1 EXCEPT !.arm = "check",
                             !.retries = EC_FSM_RETRIES, !.reset = TRUE]
        ELSE [f1 EXCEPT !.arm = "fetch",
                        !.retries = EC_FSM_RETRIES, !.reset = TRUE,
                        !.state = "RESPONSE"]

\* ec_fsm_eoe_set_ip_response
ec_fsm_eoe_set_ip_response(f, dg) ==
    LET f1 == AfterRetryTest(f, dg)
        data == dg.mbox.bytes
        rec_size == Len(data)
        result == ResultOf(data)
        f2 == [f1 EXCEPT !.frame_type_retries = Dec(f1.frame_type_retries),
                         !.stray = TRUE]
    IN  IF RetryTest(f, dg) THEN [f1 EXCEPT !.arm = "fetch"]
        ELSE IF dg.state # "RECEIVED" THEN ToError(f1, "FetchFailed")
        ELSE IF dg.working_counter # 1 THEN ToError(f1, "FetchAckFailed")
        ELSE IF dg.mbox.err THEN ToError(f1, "FetchError")
        ELSE IF dg.mbox.prot # EC_MBOX_TYPE_EOE
        THEN ToError(f1, "WrongMailboxProtocol")
        ELSE IF rec_size < 4 THEN ToError(f1, "CorruptResponse")
        ELSE IF FrameType(data[1]) # EC_EOE_FRAMETYPE_SET_IP_RES
        THEN IF FrameRetryLeft(f1.frame_type_retries)
             THEN [f2 EXCEPT !.jiffies_start = WindowStart(dg),
                             !.arm = "check",
                             !.retries = EC_FSM_RETRIES, !.reset = TRUE,
                             !.state = "CHECK"]
             ELSE ToError(f2, "NoResponseReceived")
        ELSE IF SlaveRejected(result)
             THEN ToError([f1 EXCEPT !.request.result = result,
                                     !.wrote = TRUE],
                          "SlaveRejected")
             ELSE [f1 EXCEPT !.request.result = result, !.wrote = TRUE,
                             !.state = "END"]

\* ec_fsm_eoe_error
ec_fsm_eoe_error(f) == f

ec_fsm_eoe_end_mut(f) == [f EXCEPT !.arm = "check"]

\* ec_fsm_eoe_end
ec_fsm_eoe_end(f) == f

\* fsm->state(fsm, datagram)
Handler(f, dg, eoe, ok) ==
    CASE f.state = "START"    -> ec_fsm_eoe_set_ip_start(f, eoe, ok)
      [] f.state = "REQUEST"  -> ec_fsm_eoe_set_ip_request(f, dg, ok)
      [] f.state = "CHECK"    -> ec_fsm_eoe_set_ip_check(f, dg)
      [] f.state = "RESPONSE" -> ec_fsm_eoe_set_ip_response(f, dg)
      [] f.state = "ERROR"    -> ec_fsm_eoe_error(f)
      [] f.state = "END"      -> ec_fsm_eoe_end(f)

\* ec_fsm_eoe_success ("is_successful")
ec_fsm_eoe_success == state = "END"

-----------------------------------------------------------------------------
(* The caller's operations *)

Min(a, b) == IF a < b THEN a ELSE b

SetIpParam_mut(sl, req) ==
    /\ slave' = sl
    /\ request' = req
    /\ state' = "START"
    /\ datagram' = NULL
    /\ call' = [NoCall EXCEPT !.op = "begin", !.from = state]
    /\ hist' = NoHist
    /\ UNCHANGED <<retries, frame_type_retries, jiffies_start, slots>>

\* ec_fsm_eoe_set_ip_param ("begin")
SetIpParam(sl, req) ==
    /\ slave' = sl
    /\ request' = req
    /\ state' = "START"
    /\ call' = [NoCall EXCEPT !.op = "begin", !.from = state]
    /\ hist' = NoHist
    /\ UNCHANGED <<retries, frame_type_retries, datagram, jiffies_start,
                   slots>>

\* the history after a handler ran on the resolved datagram dg
NextHist(f, dg) ==
    [hist EXCEPT
     !.wrote = hist.wrote \/ f.wrote,
     !.strays = IF f.stray THEN Min(hist.strays + 1, FRAME_TYPE_RETRIES + 2)
                ELSE hist.strays,
     !.timeouts = IF f.reset THEN 0
                  ELSE IF state \in {"REQUEST", "CHECK", "RESPONSE"}
                          /\ dg.state = "TIMED_OUT"
                       THEN Min(hist.timeouts + 1, EC_FSM_RETRIES + 2)
                       ELSE hist.timeouts]

\* the datagrams the caller may offer: neither retained by the FSM nor armed
Free == { s \in Slots : s # datagram /\ slots[s].op = Unarmed }

\* ec_fsm_eoe_exec ("step"): the caller offers the datagram d, the next free
\* one of its ring; eoe is whether the slave supports EoE and ok what
\* ec_slave_mbox_prepare_send would answer.  A datagram the FSM lets go of
\* goes back to the transport.
Exec(d, eoe, ok) ==
    /\ state # NoState
    /\ d \in Free
    /\ \A s \in Free : d <= s
    /\ IF datagram # NULL /\ Unresolved(slots[datagram].state)
       THEN /\ call' = [NoCall EXCEPT !.op = "exec", !.slot = d,
                                      !.from = state]
            /\ UNCHANGED <<fsmVars, slots, hist>>
       ELSE LET dg == slots[datagram]
                f == Handler(Ctx, dg, eoe, ok)
                datagram_used == DatagramUsed(f.state)
                payload == IF f.arm = "send" THEN PreparedData(f.request)
                           ELSE <<>>
            IN  /\ state' = f.state
                /\ retries' = f.retries
                /\ frame_type_retries' = f.frame_type_retries
                /\ jiffies_start' = f.jiffies_start
                /\ request' = f.request
                /\ datagram' = IF datagram_used THEN d ELSE NULL
                /\ slots' = [s \in Slots |->
                       IF s = d
                       THEN IF f.arm = Unarmed THEN slots[s]
                            ELSE Armed(f.arm, payload)
                       ELSE IF s = datagram /\ ~Unresolved(slots[s].state)
                            THEN IdleSlot
                            ELSE slots[s]]
                /\ call' = [op |-> "exec", slot |-> d, ran |-> TRUE,
                            ret |-> IF datagram_used THEN 1 ELSE 0,
                            from |-> state, err |-> f.err]
                /\ hist' = NextHist(f, dg)
                /\ UNCHANGED slave

-----------------------------------------------------------------------------
(* The transport and the clock *)

\* the caller queues a datagram the FSM armed
Queue(s) ==
    /\ slots[s].op # Unarmed
    /\ slots[s].state = "INIT"
    /\ slots' = [slots EXCEPT ![s].state = "QUEUED"]
    /\ call' = NoCall
    /\ UNCHANGED <<fsmVars, hist>>

\* the master sends a queued datagram
Send(s) ==
    /\ slots[s].state = "QUEUED"
    /\ slots' = [slots EXCEPT ![s].state = "SENT",
                              ![s].jiffies_sent = jiffies]
    /\ call' = NoCall
    /\ hist' = IF state = "REQUEST" /\ s = datagram /\ hist.ticks < 0
               THEN [hist EXCEPT !.ticks = 0]
               ELSE hist
    /\ UNCHANGED fsmVars

\* what a datagram armed for op may bring back with working counter wc
Replies(op, wc) ==
    IF wc # 1 THEN {NoMbox}
    ELSE IF op = "check" THEN CheckReplies
    ELSE IF op = "fetch" THEN FetchReplies
    ELSE {NoMbox}

\* a sent datagram comes back
Receive(s, wc, mb) ==
    /\ slots[s].state = "SENT"
    /\ slots' = [slots EXCEPT ![s].state = "RECEIVED",
                              ![s].working_counter = wc,
                              ![s].jiffies_received = jiffies,
                              ![s].mbox = mb]
    /\ call' = NoCall
    /\ UNCHANGED <<fsmVars, hist>>

\* a datagram on its way is given up
TimeOut(s) ==
    /\ slots[s].state \in {"QUEUED", "SENT"}
    /\ slots' = [slots EXCEPT ![s].state = "TIMED_OUT"]
    /\ call' = NoCall
    /\ UNCHANGED <<fsmVars, hist>>

\* a time stamp one tick later
Aged(t) == (t - TickJiffies) % ClockPeriod

\* the next tick makes the stamp t a whole clock period old
Wraps(t) == (jiffies - t) % ClockPeriod = ClockPeriod - TickJiffies

\* a time stamp the running handler will read is about to wrap: the request's
\* jiffies_sent in REQUEST, jiffies_start in CHECK, the stamps of the
\* received datagram the FSM retains
StampWraps ==
    \/ state = "REQUEST" /\ Wraps(request.jiffies_sent)
    \/ state = "CHECK" /\ Wraps(jiffies_start)
    \/ /\ state \in {"REQUEST", "CHECK", "RESPONSE"}
       /\ datagram # NULL
       /\ slots[datagram].state = "RECEIVED"
       /\ Wraps(slots[datagram].jiffies_sent)
          \/ Wraps(slots[datagram].jiffies_received)

\* the clock advances by one tick: the stamps taken so far grow older.  A
\* tick is long against the cycle of the transport: a datagram is queued,
\* sent and answered or given up within the tick in which it was armed.
\* Time is followed while an operation is under way (REQUEST, CHECK,
\* RESPONSE): outside of it no stamp is read before it is assigned again.
Tick ==
    /\ state \in {"REQUEST", "CHECK", "RESPONSE"}
    /\ \A s \in Slots : slots[s].op = Unarmed
                         \/ slots[s].state \in {"RECEIVED", "TIMED_OUT"}
    /\ jiffies_start' = Aged(jiffies_start)
    /\ request' = [request EXCEPT !.jiffies_sent = Aged(@)]
    /\ slots' = [s \in Slots |->
           [slots[s] EXCEPT
               !.jiffies_sent =
                   IF slots[s].state = "RECEIVED" THEN Aged(@) ELSE @,
               !.jiffies_received =
                   IF slots[s].state = "RECEIVED" THEN Aged(@) ELSE @]]
    /\ call' = NoCall
    /\ hist' = [hist EXCEPT !.ticks = IF @ < 0 THEN @ ELSE Min(@ + 1, NTicks),
                            !.exact = @ /\ ~StampWraps]
    /\ UNCHANGED <<state, retries, frame_type_retries, datagram, slave>>

Next ==
    \/ \E sl \in Slaves, req \in Requests : SetIpParam(sl, req)
    \/ \E d \in Slots, eoe \in BOOLEAN, ok \in BOOLEAN : Exec(d, eoe, ok)
    \/ \E s \in Slots : Queue(s)
    \/ \E s \in Slots : Send(s)
    \/ \E s \in Slots, wc \in WorkingCounters :
          \E mb \in Replies(slots[s].op, wc) : Receive(s, wc, mb)
    \/ \E s \in Slots : TimeOut(s)
    \/ Tick

Spec == Init /\ [][Next]_vars

TypeOK ==
    /\ state \in {NoState, "START", "REQUEST", "CHECK", "RESPONSE", "END", "ERROR"}
    /\ retries \in (0..EC_FSM_RETRIES) \cup {UINT_MAX}
    /\ frame_type_retries \in (0..FRAME_TYPE_RETRIES) \cup {UINT_MAX}
    /\ datagram \in Slots \cup {NULL}
    /\ jiffies_start \in Times

-----------------------------------------------------------------------------
(* One operation driven to its end: begin is called once, exec is called   *)
(* in every cycle, every armed datagram is queued, sent and answered or     *)
(* given up, and the clock advances between the resolution of a datagram    *)
(* and the call of exec that looks at it                                    *)

\* the clock has advanced since the retained datagram was received
TickedSinceReceived ==
    (datagram # NULL /\ slots[datagram].state = "RECEIVED")
        => slots[datagram].jiffies_received # jiffies

ExecLive(d, eoe, ok) ==
    /\ state \in {"REQUEST", "CHECK", "RESPONSE"} => TickedSinceReceived
    /\ Exec(d, eoe, ok)

Resolve(s) ==
    \/ \E wc \in WorkingCounters :
          \E mb \in Replies(slots[s].op, wc) : Receive(s, wc, mb)
    \/ TimeOut(s)

NextLive ==
    \/ \E sl \in Slaves, req \in Requests :
          state = NoState /\ SetIpParam(sl, req)
    \/ \E d \in Slots, eoe \in BOOLEAN, ok \in BOOLEAN : ExecLive(d, eoe, ok)
    \/ \E s \in Slots : Queue(s)
    \/ \E s \in Slots : Send(s)
    \/ \E s \in Slots : Resolve(s)
    \/ Tick

Fairness ==
    /\ WF_vars(\E sl \in Slaves, req \in Requests :
                  state = NoState /\ SetIpParam(sl, req))
    /\ WF_vars(\E d \in Slots, eoe \in BOOLEAN, ok \in BOOLEAN :
                  ExecLive(d, eoe, ok))
    /\ WF_vars(\E s \in Slots : Queue(s))
    /\ WF_vars(\E s \in Slots : Send(s))
    /\ WF_vars(\E s \in Slots : Resolve(s))
    /\ WF_vars(Tick)

SpecLive == Init /\ [][NextLive]_vars /\ Fairness

-----------------------------------------------------------------------------
(* The encoder on its own: begin was called with any combination of the    *)
(* inclusion flags, and the START handler encodes the request              *)

AllFlags == [1..6 -> BOOLEAN]

EncRequests == { NewRequest(flags, 0) : flags \in AllFlags }

InitEnc ==
    /\ slave = 1
    /\ retries = 0
    /\ state = "START"
    /\ datagram = NULL
    /\ jiffies_start = 0
    /\ request \in EncRequests
    /\ frame_type_retries = 0
    /\ slots = [s \in Slots |-> IdleSlot]
    /\ call = [NoCall EXCEPT !.op = "begin", !.from = NoState]
    /\ hist = NoHist

NextEnc ==
    \E d \in Slots, eoe \in BOOLEAN, ok \in BOOLEAN :
        state = "START" /\ Exec(d, eoe, ok)

SpecEncode == InitEnc /\ [][NextEnc]_vars

-----------------------------------------------------------------------------
(* The byte-order helper on its own: the START handler encodes a request   *)
(* whose IP address is any word over SwapBytes                             *)

SwapBytes == {0, 1, 128, 255}

SwapRequests ==
    { [NewRequest(<<FALSE, TRUE, FALSE, FALSE, FALSE, FALSE>>, 0)
          EXCEPT !.ip_address = ip] : ip \in [1..4 -> SwapBytes] }

InitSwap ==
    /\ slave = 1
    /\ retries = 0
    /\ state = "START"
    /\ datagram = NULL
    /\ jiffies_start = 0
    /\ request \in SwapRequests
    /\ frame_type_retries = 0
    /\ slots = [s \in Slots |-> IdleSlot]
    /\ call = [NoCall EXCEPT !.op = "begin", !.from = NoState]
    /\ hist = NoHist

NextSwap ==
    \E d \in Slots, eoe \in BOOLEAN, ok \in BOOLEAN :
        state = "START" /\ Exec(d, eoe, ok)

SpecSwap == InitSwap /\ [][NextSwap]_vars

-----------------------------------------------------------------------------
(* Properties *)

Terminal == {"END", "ERROR"}
Running == {"REQUEST", "CHECK", "RESPONSE"}
InFlight == {"INIT", "QUEUED", "SENT"}

\* the retained datagram is in state st
PendingIs(st) == datagram # NULL /\ slots[datagram].state = st

\* the retained datagram is a received fetch with working counter 1 whose
\* mailbox data is an EoE frame of at least 4 bytes
WellFormedReply ==
    /\ PendingIs("RECEIVED")
    /\ slots[datagram].op = "fetch"
    /\ slots[datagram].working_counter = 1
    /\ ~slots[datagram].mbox.err
    /\ slots[datagram].mbox.prot = 2
    /\ Len(slots[datagram].mbox.bytes) >= 4

ReplyFrameType == slots[datagram].mbox.bytes[1] % 16

\* bytes [2..4) of the reply, little-endian
ReplyResult ==
    slots[datagram].mbox.bytes[3] + 256 * slots[datagram].mbox.bytes[4]

\* C1: after every call of exec that ran a state handler, the value returned
\* is 1 exactly when the state is neither END nor ERROR; then the retained
\* datagram is the one passed to the call, and otherwise 0 was returned and
\* no datagram is retained.
C1_ReturnValue ==
    (call.op = "exec" /\ call.ran) =>
        /\ call.ret \in {0, 1}
        /\ (call.ret = 1) <=> (state \notin Terminal)
        /\ (call.ret = 1) => datagram = call.slot
        /\ (call.ret = 0) => datagram = NULL

C1_Witness ==
    /\ call.op = "exec" /\ call.ran /\ call.ret = 1
    /\ state = "RESPONSE" /\ datagram = call.slot

\* C2: a call of exec made while the retained datagram is still INIT, QUEUED
\* or SENT returns 0, runs no handler, arms nothing and leaves the context,
\* the request and every datagram as they were.
C2_Deferred ==
    [][ (call'.op = "exec" /\ datagram # NULL
           /\ slots[datagram].state \in InFlight)
        => /\ call'.ret = 0
           /\ ~call'.ran
           /\ UNCHANGED <<state, retries, frame_type_retries, jiffies_start,
                          datagram, request, slave, slots, hist>> ]_vars

C2_Witness ==
    /\ call.op = "exec" /\ ~call.ran /\ call.ret = 0
    /\ state = "CHECK" /\ PendingIs("SENT")

\* C3: success is reported exactly in state END; END is entered only from
\* RESPONSE, by a call of exec that found a received fetch with working
\* counter 1, protocol EoE, at least 4 bytes, frame type SET_IP_RESPONSE and
\* result 0; and in END the request's result is 0.
C3_Success ==
    /\ [](ec_fsm_eoe_success <=> state = "END")
    /\ [](state = "END" => request.result = 0)
    /\ [][ (state' = "END" /\ state # "END")
           => /\ state = "RESPONSE"
              /\ call'.op = "exec"
              /\ WellFormedReply
              /\ ReplyFrameType = 3
              /\ ReplyResult = 0 ]_vars

C3_Witness ==
    /\ state = "END" /\ ec_fsm_eoe_success /\ request.result = 0
    /\ call.op = "exec" /\ call.from = "RESPONSE"
    /\ hist.strays = 0 /\ hist.timeouts = 0

\* C4: when RESPONSE decodes a well-formed reply of type SET_IP_RESPONSE with
\* a nonzero result, the FSM goes to ERROR, reports no success, and the
\* request's result is the code in bytes [2..4) of the reply, little-endian.
C4_Rejected ==
    [][ (call'.op = "exec" /\ state = "RESPONSE" /\ WellFormedReply
           /\ ReplyFrameType = 3 /\ ReplyResult # 0)
        => /\ state' = "ERROR"
           /\ ~ec_fsm_eoe_success'
           /\ request'.result = ReplyResult ]_vars

C4_Witness ==
    /\ state = "ERROR" /\ request.result = 1
    /\ call.op = "exec" /\ call.from = "RESPONSE"
    /\ call.err = "SlaveRejected"

\* the mailbox operation a state re-arms
ArmOf(st) ==
    CASE st = "REQUEST" -> "send" [] st = "CHECK" -> "check"
      [] st = "RESPONSE" -> "fetch"

\* exec runs the handler of st on a retained datagram that timed out
TimedOutStep(st) ==
    call'.op = "exec" /\ state = st /\ PendingIs("TIMED_OUT")

\* the handler stayed in st and re-armed its operation on the offered datagram
Stayed(st) ==
    /\ state' = st
    /\ call'.ret = 1
    /\ datagram' = call'.slot
    /\ slots'[call'.slot].op = ArmOf(st)
    /\ slots'[call'.slot].state = "INIT"

\* C5 as stated: of the datagrams that time out in a row in REQUEST, CHECK or
\* RESPONSE since retries was last reset, the first EC_FSM_RETRIES are
\* re-armed in the same state and the next one moves the FSM to ERROR.
C5_AsStated ==
    [][ \A st \in Running :
          TimedOutStep(st) =>
              IF hist.timeouts < EC_FSM_RETRIES THEN Stayed(st)
              ELSE state' = "ERROR" ]_vars

\* C5, amended: as stated, except that in REQUEST a re-arm whose encoding
\* fails (no mailbox send buffer) moves the FSM to ERROR at that step.
C5_RetryBound ==
    [][ \A st \in Running :
          TimedOutStep(st) =>
              IF hist.timeouts < EC_FSM_RETRIES
              THEN IF st = "REQUEST" /\ call'.err = "MailboxBusyOrUnsupported"
                   THEN state' = "ERROR" /\ slots' [call'.slot].op = Unarmed
                   ELSE Stayed(st) /\ call'.err = "none"
              ELSE /\ state' = "ERROR"
                   /\ call'.err \in {"TransmitFailed", "CheckFailed",
                                     "FetchFailed"} ]_vars

C5_Witness ==
    /\ state = "ERROR" /\ call.op = "exec" /\ call.from = "REQUEST"
    /\ call.err = "TransmitFailed"
    /\ hist.timeouts = EC_FSM_RETRIES + 1

\* C6: in CHECK, a received check datagram (working counter 1) that reports
\* no mailbox data, received 3000 ms or more after jiffies_start, moves the
\* FSM to ERROR, whatever retries is.
C6_AbsoluteTimeout ==
    [][ (call'.op = "exec" /\ state = "CHECK" /\ PendingIs("RECEIVED")
           /\ slots[datagram].working_counter = 1
           /\ ~slots[datagram].mbox.has_data
           /\ DiffMs(slots[datagram].jiffies_received, jiffies_start) >= 3000)
        => /\ state' = "ERROR"
           /\ call'.err = "ResponseTimeout"
           /\ call'.ret = 0
           /\ slots'[call'.slot].op = Unarmed ]_vars

C6_Witness ==
    /\ state = "ERROR" /\ call.op = "exec" /\ call.from = "CHECK"
    /\ call.err = "ResponseTimeout"
    /\ retries = EC_FSM_RETRIES

\* the retained datagram is a well-formed reply of another frame type
StrayReply == WellFormedReply /\ ReplyFrameType # 3

\* C7: in one operation each of the first 10 frames of another type sends
\* the FSM from RESPONSE back to CHECK with a check armed, and the 11th to
\* ERROR; a SET_IP_RESPONSE frame with result 0 ends the operation in END
\* however many frames were discarded before; frame_type_retries is set to
\* 10 only on the way from REQUEST to CHECK and otherwise only counted down.
C7_StrayRecovery ==
    /\ [][ (call'.op = "exec" /\ state = "RESPONSE" /\ StrayReply)
           => IF hist.strays < 10
              THEN /\ state' = "CHECK"
                   /\ slots'[call'.slot].op = "check"
                   /\ call'.ret = 1
              ELSE /\ state' = "ERROR"
                   /\ call'.err = "NoResponseReceived" ]_vars
    /\ [][ (call'.op = "exec" /\ state = "RESPONSE" /\ WellFormedReply
              /\ ReplyFrameType = 3 /\ ReplyResult = 0)
           => state' = "END" ]_vars
    /\ [][ frame_type_retries' # frame_type_retries
           => \/ state = "REQUEST" /\ state' = "CHECK"
                 /\ frame_type_retries' = 10
              \/ state = "RESPONSE" /\ StrayReply
                 /\ frame_type_retries' = frame_type_retries - 1 ]_vars
    /\ [](state \in {"CHECK", "RESPONSE"}
            => frame_type_retries = 10 - hist.strays)

C7_Witness ==
    /\ state = "END" /\ call.op = "exec" /\ hist.strays = 10
    /\ frame_type_retries = 0

\* C8: in END and in ERROR a call of exec changes nothing of the context,
\* the request or the datagrams, returns 0 and retains no datagram; the
\* state is left only by begin.
C8_Absorbing ==
    /\ [][ (call'.op = "exec" /\ state \in Terminal)
           => /\ call'.ret = 0
              /\ datagram = NULL /\ datagram' = NULL
              /\ UNCHANGED <<state, retries, frame_type_retries,
                             jiffies_start, request, slave, slots>> ]_vars
    /\ [][ (state \in Terminal /\ state' # state)
           => call'.op = "begin" /\ state' = "START" ]_vars

C8_Witness ==
    /\ call.op = "exec" /\ call.from = "END" /\ call.ran /\ call.ret = 0
    /\ state = "END" /\ datagram = NULL

\* C9 as stated: begin sets the state to START and resets retries and
\* frame_type_retries (to their initial value or to their full budget).
C9_AsStated ==
    [][ call'.op = "begin"
        => /\ state' = "START"
           /\ retries' \in {0, EC_FSM_RETRIES}
           /\ frame_type_retries' \in {0, FRAME_TYPE_RETRIES} ]_vars

\* C9, amended: begin, in any state, sets the state to START and takes the
\* slave and the request, and leaves retries, frame_type_retries,
\* jiffies_start and the retained datagram as they are; the counters are
\* assigned before the new operation reads them (retries by START,
\* frame_type_retries on the way from REQUEST to CHECK).
C9_Begin ==
    /\ [][ call'.op = "begin"
           => /\ state' = "START"
              /\ UNCHANGED <<retries, frame_type_retries, jiffies_start,
                             datagram, slots>> ]_vars
    /\ [](state \in Running => retries = EC_FSM_RETRIES - hist.timeouts)
    /\ [](state \in {"CHECK", "RESPONSE"}
            => frame_type_retries = FRAME_TYPE_RETRIES - hist.strays)

C9_Witness ==
    /\ call.op = "begin" /\ call.from = "CHECK" /\ state = "START"
    /\ retries = 2 /\ frame_type_retries = 9
    /\ datagram # NULL

\* C10 as stated: the encoded request is 54 bytes long, whatever the
\* inclusion flags.
C10_AsStated ==
    \A s \in Slots : slots[s].op = "send" => Len(slots[s].data) = 54

\* C10, amended: the encoded request is 8 + 6 + 4*4 + 32 = 62 bytes long
\* (with a hostname field of 32 bytes), whatever the inclusion flags.
C10_PayloadSize ==
    \A s \in Slots : slots[s].op = "send" => Len(slots[s].data) = 62

C10_Witness ==
    \E s \in Slots :
        /\ slots[s].op = "send" /\ Len(slots[s].data) = 62
        /\ request.name_included /\ ~request.mac_address_included

\* the byte-reversed copy of four bytes, written out
Reversed(x) == <<x[4], x[3], x[2], x[1]>>

\* bytes [a, b) of a payload, offsets counted from 0
Bytes(d, a, b) == SubSeq(d, a + 1, b)

\* a field of the payload: the value when included, zero bytes otherwise
FieldIs(d, a, b, included, value) ==
    Bytes(d, a, b) = IF included THEN value ELSE [i \in 1..(b - a) |-> 0]

\* C11: for every combination of the six inclusion flags the encoded request
\* has byte 0 = SET_IP_REQUEST, bytes 1..3 zero, bytes [4,8) the little-endian
\* flags word (bit0 mac, bit1 ip, bit2 subnet, bit3 gateway, bit4 dns, bit5
\* name), and each field at its fixed offset: MAC [8,14) and hostname
\* [30,62) verbatim, IP [14,18), mask [18,22), gateway [22,26) and DNS
\* [26,30) byte-reversed; a field that is not included is all zero.
C11_Layout ==
    \A s \in Slots : slots[s].op = "send" =>
        LET d == slots[s].data
            r == request
            bit(b, w) == IF b THEN w ELSE 0
        IN  /\ d[1] = 2 /\ d[2] = 0 /\ d[3] = 0 /\ d[4] = 0
            /\ d[5] = bit(r.mac_address_included, 1)
                      + bit(r.ip_address_included, 2)
                      + bit(r.subnet_mask_included, 4)
                      + bit(r.gateway_included, 8)
                      + bit(r.dns_included, 16)
                      + bit(r.name_included, 32)
            /\ d[6] = 0 /\ d[7] = 0 /\ d[8] = 0
            /\ FieldIs(d, 8, 14, r.mac_address_included, r.mac_address)
            /\ FieldIs(d, 14, 18, r.ip_address_included,
                       Reversed(r.ip_address))
            /\ FieldIs(d, 18, 22, r.subnet_mask_included,
                       Reversed(r.subnet_mask))
            /\ FieldIs(d, 22, 26, r.gateway_included, Reversed(r.gateway))
            /\ FieldIs(d, 26, 30, r.dns_included, Reversed(r.dns))
            /\ FieldIs(d, 30, Len(d), r.name_included, r.name)

C11_Witness ==
    \E s \in Slots :
        /\ slots[s].op = "send"
        /\ request.ip_address_included /\ ~request.mac_address_included
        /\ ~request.subnet_mask_included /\ ~request.gateway_included
        /\ ~request.dns_included /\ ~request.name_included
        /\ Bytes(slots[s].data, 0, 8) = <<2, 0, 0, 0, 2, 0, 0, 0>>
        /\ Bytes(slots[s].data, 8, 14) = <<0, 0, 0, 0, 0, 0>>
        /\ Bytes(slots[s].data, 14, 18) = <<10, 2, 0, 192>>
        /\ \A i \in 19..62 : slots[s].data[i] = 0

\* C12: memcpy_swap32 writes dst[i] = src[3 - i] for i = 0..3 into the
\* payload and leaves the source (the request's field) unchanged, and
\* swapping twice gives the original bytes back.
C12_Swap32 ==
    /\ [](\A s \in Slots : slots[s].op = "send" =>
            \A i \in 0..3 :
                slots[s].data[14 + i + 1] = request.ip_address[(3 - i) + 1])
    /\ [](\A s \in Slots : slots[s].op = "send" =>
            memcpy_swap32(Bytes(slots[s].data, 14, 18)) = request.ip_address)
    /\ [][request'.ip_address = request.ip_address]_vars

C12_Witness ==
    \E s \in Slots :
        /\ slots[s].op = "send"
        /\ request.ip_address = <<0, 1, 128, 255>>
        /\ Bytes(slots[s].data, 14, 18) = <<255, 128, 1, 0>>

\* the datagrams armed for the FSM that are still on their way
Outstanding ==
    { s \in Slots : slots[s].op # Unarmed /\ slots[s].state \in InFlight }

\* C13: under any sequence of begin and exec calls the FSM never arms a
\* mailbox operation on a new datagram while the datagram it retains is
\* still INIT, QUEUED or SENT; at every point at most one datagram armed by
\* the FSM is outstanding, and it is the retained one.
C13_SingleOutstanding ==
    /\ [](Cardinality(Outstanding) <= 1)
    /\ [](\A s \in Outstanding : s = datagram)
    /\ [][ (call'.op = "exec" /\ slots'[call'.slot] # slots[call'.slot])
           => (datagram = NULL \/ slots[datagram].state \notin InFlight) ]_vars

C13_Witness ==
    /\ call.op = "exec" /\ ~call.ran /\ call.from = "START"
    /\ state = "START" /\ PendingIs("SENT")
    /\ Outstanding = {datagram}
    /\ slots[call.slot].op = Unarmed

\* the changes of state a call of exec may make
Transitions ==
    { <<"START", "REQUEST">>, <<"REQUEST", "CHECK">>, <<"CHECK", "RESPONSE">>,
      <<"RESPONSE", "CHECK">>, <<"RESPONSE", "END">> } \cup
    { <<st, "ERROR">> : st \in {"START", "REQUEST", "CHECK", "RESPONSE"} }

\* the call of exec arms the mailbox operation op on the datagram it was given
Arms(op) ==
    /\ call'.op = "exec"
    /\ slots[call'.slot].op = Unarmed
    /\ slots'[call'.slot].op = op

\* the retained datagram was received with working counter 1
Acked == PendingIs("RECEIVED") /\ slots[datagram].working_counter = 1

\* C14: within an operation the state changes only by START->REQUEST,
\* REQUEST->CHECK, CHECK->RESPONSE, RESPONSE->CHECK (a frame of another
\* type), RESPONSE->END and from a non-terminal state to ERROR, and only in
\* calls of exec; a check is armed only on an acknowledged request, on a
\* frame of another type in RESPONSE, or again within CHECK; a fetch only on
\* an acknowledged check that reports data, or again on a timed-out fetch in
\* RESPONSE; and a request is encoded only in START and REQUEST.
C14_Order ==
    /\ [][ (state' # state /\ call'.op # "begin")
           => call'.op = "exec" /\ <<state, state'>> \in Transitions ]_vars
    /\ [][ (state = "RESPONSE" /\ state' = "CHECK") => StrayReply ]_vars
    /\ [][ Arms("check")
           => \/ state = "REQUEST" /\ Acked
              \/ state = "RESPONSE" /\ StrayReply
              \/ state = "CHECK" /\ PendingIs("TIMED_OUT")
              \/ state = "CHECK" /\ Acked
                 /\ ~slots[datagram].mbox.has_data ]_vars
    /\ [][ Arms("fetch")
           => \/ state = "CHECK" /\ Acked /\ slots[datagram].mbox.has_data
              \/ state = "RESPONSE" /\ PendingIs("TIMED_OUT") ]_vars
    /\ [][ Arms("send") => state \in {"START", "REQUEST"} ]_vars

C14_Witness ==
    /\ state = "END" /\ call.op = "exec" /\ call.from = "RESPONSE"
    /\ hist.strays = 1 /\ hist.timeouts = 1

\* C16: in REQUEST, on a request datagram received with a working counter
\* other than 1: if the counter is 0 and less than 3000 ms have passed since
\* the request's jiffies_sent, the request is encoded again into the new
\* datagram and the FSM stays in REQUEST with retries unchanged, or goes to
\* ERROR if the encoding fails; in every other case (counter 0 after 3000 ms
\* or more, or a counter of 2 or more) the FSM goes to ERROR and arms nothing.
C16_NoAck ==
    [][ (call'.op = "exec" /\ state = "REQUEST" /\ PendingIs("RECEIVED")
           /\ slots[datagram].working_counter # 1)
        => /\ retries' = retries
           /\ IF slots[datagram].working_counter = 0
                 /\ DiffMs(jiffies, request.jiffies_sent) < 3000
              THEN \/ /\ state' = "REQUEST"
                      /\ call'.err = "none"
                      /\ slots'[call'.slot].op = "send"
                      /\ slots'[call'.slot].data = PreparedData(request)
                      /\ request'.jiffies_sent = jiffies
                   \/ /\ state' = "ERROR"
                      /\ call'.err = "MailboxBusyOrUnsupported"
                      /\ slots'[call'.slot] = slots[call'.slot]
              ELSE /\ state' = "ERROR"
                   /\ call'.err = "NoAcknowledgment"
                   /\ slots'[call'.slot] = slots[call'.slot] ]_vars

C16_Witness ==
    /\ call.op = "exec" /\ call.ran /\ call.from = "REQUEST"
    /\ state = "REQUEST" /\ retries = EC_FSM_RETRIES
    /\ hist.ticks = 1
    /\ slots[call.slot].op = "send"

\* C19: in every call of exec that runs a handler, the handler arms a
\* mailbox operation (send, check or fetch) on the datagram it was given
\* exactly when the call returns 1, that is exactly when the state it leaves
\* is neither END nor ERROR; a call that returns 0 leaves the datagram as it
\* was.
C19_ConsumedIffArmed ==
    [][ (call'.op = "exec" /\ call'.ran)
        => /\ slots[call'.slot].op = Unarmed
           /\ (call'.ret = 1) <=>
                 /\ slots'[call'.slot].op \in {"send", "check", "fetch"}
                 /\ slots'[call'.slot].state = "INIT"
           /\ (call'.ret = 0) => slots'[call'.slot] = slots[call'.slot]
           /\ (state' \notin Terminal) <=> (slots'[call'.slot].op # Unarmed)
       ]_vars

C19_Witness ==
    /\ call.op = "exec" /\ call.ran /\ call.ret = 0
    /\ call.from = "REQUEST" /\ call.err = "MailboxBusyOrUnsupported"
    /\ state = "ERROR" /\ slots[call.slot].op = Unarmed

\* C20: whenever the REQUEST, CHECK or RESPONSE handler runs, also after a
\* begin in a terminal state or in the middle of an operation, the FSM
\* retains a datagram and that datagram is RECEIVED or TIMED_OUT.
C20_PendingResolved ==
    /\ [][ (call'.op = "exec" /\ call'.ran /\ state \in Running)
           => /\ datagram # NULL
              /\ slots[datagram].state \in {"RECEIVED", "TIMED_OUT"} ]_vars
    /\ [](state \in Running => datagram # NULL /\ slots[datagram].op # Unarmed)

C20_Witness ==
    /\ call.op = "exec" /\ call.ran /\ call.from = "REQUEST"
    /\ state = "REQUEST" /\ frame_type_retries = 9
    /\ datagram = call.slot

\* the time since the request was first sent, in ms
SinceFirstSent == (hist.ticks * TickJiffies * 1000) \div HZ

\* exec looks at a check datagram that was received just now, with every
\* time stamp in use less than a clock period old
CheckReceivedNow ==
    /\ call'.op = "exec" /\ state = "CHECK" /\ PendingIs("RECEIVED")
    /\ slots[datagram].jiffies_received = jiffies
    /\ hist.exact

\* C15 as stated: one window of 3000 ms from the first transmission of the
\* request bounds the polling: an operation whose check datagram is received
\* more than 3000 ms after the request was first sent does not stay in
\* CHECK and poll again.
C15_AsStated ==
    [][ (CheckReceivedNow /\ SinceFirstSent > 3000)
        => state' # "CHECK" ]_vars

\* C15, amended: the window of 3000 ms starts at the time the acknowledged
\* request datagram was sent and starts again at the time each fetch that
\* brought a frame of another type was sent (jiffies_start is assigned
\* there and nowhere else); a check datagram received with working counter
\* 1 and no data 3000 ms or more after that start moves the FSM to ERROR,
\* and one received earlier is followed by another check.
C15_Window ==
    /\ [][ call'.op = "exec"
           => IF \/ state = "REQUEST" /\ state' = "CHECK"
                 \/ state = "RESPONSE" /\ state' = "CHECK"
              THEN jiffies_start' = slots[datagram].jiffies_sent
              ELSE jiffies_start' = jiffies_start ]_vars
    /\ [][ (call'.op = "exec" /\ state = "CHECK" /\ Acked
              /\ ~slots[datagram].mbox.has_data)
           => IF DiffMs(slots[datagram].jiffies_received, jiffies_start)
                    >= 3000
              THEN state' = "ERROR"
              ELSE state' = "CHECK" /\ slots'[call'.slot].op = "check" ]_vars

C15_Witness ==
    /\ call.op = "exec" /\ call.from = "RESPONSE" /\ state = "CHECK"
    /\ hist.exact /\ SinceFirstSent > 3000
    /\ DiffMs(jiffies, jiffies_start) < 3000

\* exec runs the RESPONSE handler on a well-formed SET_IP_RESPONSE reply
DecodesResult ==
    /\ call'.op = "exec" /\ state = "RESPONSE"
    /\ WellFormedReply /\ ReplyFrameType = 3

\* C17 as stated: whenever an operation has reached END or ERROR, the FSM has
\* assigned the request's result during that operation.
C17_AsStated == state \in Terminal => hist.wrote

\* C17, amended: the FSM assigns the request's result only when RESPONSE
\* decodes a SET_IP_RESPONSE frame, to the code in that frame; in END the
\* result is 0, and in an ERROR reached in any other way the result is what
\* the caller left in the request before begin.
C17_Result ==
    /\ [][ DecodesResult
           => request'.result = ReplyResult /\ hist'.wrote ]_vars
    /\ [][ (state # NoState /\ call'.op # "begin" /\ ~DecodesResult)
           => /\ request'.result = request.result
              /\ hist'.wrote = hist.wrote ]_vars
    /\ [](state = "END" => hist.wrote /\ request.result = 0)
    /\ []((state = "ERROR" /\ hist.wrote) => request.result # 0)
    /\ []((state # NoState /\ ~hist.wrote)
            => request.result \in { r.result : r \in Requests })

C17_Witness ==
    /\ state = "ERROR" /\ call.op = "exec" /\ call.from = "CHECK"
    /\ call.err = "ResponseTimeout"
    /\ ~hist.wrote /\ request.result = 7

\* C18: if exec is called in every cycle, every armed datagram resolves and
\* the clock advances between the cycles, an operation that was begun
\* reaches END or ERROR; in particular REQUEST is left even if every request
\* datagram comes back with working counter 0.  (Runs in which a time stamp
\* in use grows a clock period old are left aside.)
C18_Termination ==
    (state \in {"START", "REQUEST", "CHECK", "RESPONSE"})
        ~> (state \in Terminal \/ ~hist.exact)

====
